---- MODULE Spec2Model ----
(***************************************************************************)
(* ClinicalFeedbackAgent (backend/rag_agent): the feedback-collection     *)
(* session of one agent object, its start_session and process_message     *)
(* operations and the handlers they dispatch to.                          *)
(*                                                                         *)
(* Strings the code inspects are sequences of symbols: user messages are   *)
(* sequences of characters, generated synthesis outputs are sequences of   *)
(* tokens.  Optional[T] is a sequence of length 0 (None) or 1 (a value).   *)
(* The language-model chains are external: each invocation either raises   *)
(* or returns a value drawn from a small set.                              *)
(*                                                                         *)
(* ChatbotService (backend/services) is modelled beside it, with the       *)
(* variables named in `service`: the agent's operations leave them alone   *)
(* and the service's operations leave the agent's alone.  The same holds   *)
(* for LangGraphFeedbackChatbot (backend/main_langgraph.py) and its        *)
(* variables chatbot and run.                                              *)
(***************************************************************************)
EXTENDS Integers, Sequences, FiniteSets, TLC

VARIABLES current_session, issued, clock, last, detours,
          sessions, objects, collection, tasks, calls, event,
          chatbot, run

vars == <<current_session, issued, clock, last, detours,
          sessions, objects, collection, tasks, calls, event,
          chatbot, run>>

\* the variables of the ChatbotService
service == <<sessions, objects, collection, tasks, calls, event>>

(* ------------------------------ bounds -------------------------------- *)

\* number of inputs, per run, that depart from the plain run (plain text
\* for the phase, every chain succeeding with its plain output)
MaxDetours == 2

\* number of times in a row a caller repeats a message whose call raised
MaxAttempts == 3

\* number of calls, per run, that callers make of the ChatbotService or of
\* the LangGraphFeedbackChatbot
MaxCalls == 2

\* node executions of one graph run that are followed; LangGraph stops a run
\* that needs more with GraphRecursionError
MaxSteps == 4

(* ----------------------------- Optional ------------------------------- *)

None == <<>>

Some(v) == <<v>>

(* --------------------------- string helpers --------------------------- *)

Whitespace == {" ", "\n"}

\* str.lower(), on the letters the messages use
lower(s) ==
  [i \in 1..Len(s) |->
     CASE s[i] = "Y" -> "y"
       [] s[i] = "N" -> "n"
       [] s[i] = "O" -> "o"
       [] s[i] = "K" -> "k"
       [] OTHER -> s[i]]

\* w in s (substring test)
Contains(s, w) ==
  \E i \in 1..(Len(s) - Len(w) + 1) : SubSeq(s, i, i + Len(w) - 1) = w

RECURSIVE lstrip(_, _)
lstrip(s, cs) ==
  IF s # <<>> /\ Head(s) \in cs THEN lstrip(Tail(s), cs) ELSE s

RECURSIVE rstrip(_, _)
rstrip(s, cs) ==
  IF s # <<>> /\ s[Len(s)] \in cs THEN rstrip(SubSeq(s, 1, Len(s) - 1), cs) ELSE s

\* str.strip(chars)
strip(s, cs) == rstrip(lstrip(s, cs), cs)

\* str.split(sep): every separator ends a piece, empty pieces are kept
RECURSIVE split_on(_, _, _)
split_on(s, sep, cur) ==
  IF s = <<>> THEN <<cur>>
  ELSE IF Head(s) = sep THEN <<cur>> \o split_on(Tail(s), sep, <<>>)
  ELSE split_on(Tail(s), sep, Append(cur, Head(s)))

\* str.split(): runs of whitespace separate the words, no empty words
RECURSIVE split_ws(_, _)
split_ws(s, cur) ==
  IF s = <<>> THEN (IF cur = <<>> THEN <<>> ELSE <<cur>>)
  ELSE IF Head(s) \in Whitespace
       THEN (IF cur = <<>> THEN <<>> ELSE <<cur>>) \o split_ws(Tail(s), <<>>)
  ELSE split_ws(Tail(s), Append(cur, Head(s)))

\* str.replace(tok, ""): every occurrence of the token removed
RECURSIVE remove_all(_, _)
remove_all(s, tok) ==
  IF s = <<>> THEN <<>>
  ELSE IF Head(s) = tok THEN remove_all(Tail(s), tok)
  ELSE <<Head(s)>> \o remove_all(Tail(s), tok)

(* ------------------------------ inputs -------------------------------- *)

\* the messages a preceptor types
Yes == <<"Y","e","s">>

No == <<"N","o">>

GaveMeds == <<"g","a","v","e"," ","m","e","d","s">>

AtAddress == <<"a","t"," ","a","@","b",".","c",".">>

\* replies to a confirmation request in which a keyword is part of another
\* word, or that hold a keyword of each kind
Know == <<"k","n","o","w">>

Broken == <<"b","r","o","k","e","n">>

Incorrect == <<"i","n","c","o","r","r","e","c","t">>

\* a second address, sent after the first was recorded
OtherAddress == <<"c","@","d">>

Corpus == <<Yes, No, GaveMeds, AtAddress, Know, Broken, Incorrect, OtherAddress>>

TextOf(chars) == CHOOSE i \in DOMAIN Corpus : Corpus[i] = chars

Texts == {TextOf(Yes), TextOf(No), TextOf(GaveMeds), TextOf(AtAddress)}

\* further replies, to a confirmation request and after the address request
Replies(state) ==
  IF state = "confirming_standard"
  THEN {TextOf(Know), TextOf(Broken), TextOf(Incorrect)}
  ELSE IF state = "completed" THEN {TextOf(OtherAddress)}
  ELSE {}

YesText == TextOf(Yes)

NoText == TextOf(No)

FeedbackText == TextOf(GaveMeds)

EmailText == TextOf(AtAddress)

Evaluations ==
  { [is_specific |-> FALSE, has_example |-> FALSE, quality |-> "vague"],
    [is_specific |-> TRUE,  has_example |-> FALSE, quality |-> "specific_no_example"],
    [is_specific |-> TRUE,  has_example |-> TRUE,  quality |-> "specific_with_example"],
    [is_specific |-> FALSE, has_example |-> FALSE, quality |-> "specific_with_example"] }

GoodEvaluation ==
  [is_specific |-> TRUE, has_example |-> TRUE, quality |-> "specific_with_example"]

\* outputs of the synthesis chain, as tokens
GoodSynthesis ==
  <<"SUMMARY:", " ", "s1", "\n", "SUGGESTION:", " ", "g1">>

SynthesisOutputs ==
  { GoodSynthesis,
    <<"SUMMARY:", " ", "s1", "\n", "g1">> }

(* ----------------------------- the model ------------------------------ *)

\* FeedbackSession.get_standard_order
get_standard_order ==
  <<"professional_responsibility", "knowledge_based_practice",
    "client_focused_service", "ethical_practice">>

\* FeedbackSession(session_id=..., state=INITIALIZED): the field defaults
FeedbackSession(id, now) ==
  [session_id |-> id,
   state |-> "initialized",
   current_standard |-> None,
   current_standard_index |-> 0,
   feedback_collected |-> <<>>,
   conversation_history |-> <<>>,
   preceptor_email |-> None,
   started_at |-> now,
   completed_at |-> None]

\* mutant: the newest turn is put first
add_turn_prepending(s, speaker, message) ==
  [s EXCEPT !.conversation_history =
     <<[speaker |-> speaker, message |-> message]>> \o @]

\* FeedbackSession.add_turn
add_turn(s, speaker, message) ==
  [s EXCEPT !.conversation_history =
     Append(@, [speaker |-> speaker, message |-> message])]

\* FeedbackSession.get_next_standard
get_next_standard(s) ==
  IF s.current_standard_index < Len(get_standard_order)
  THEN Some(get_standard_order[s.current_standard_index + 1])
  ELSE None

\* mutant: the index moves on but current_standard is left behind
advance_to_next_standard_stale(s, now) ==
  LET s1 == [s EXCEPT !.current_standard_index = @ + 1]
  IN IF get_next_standard(s1) # None
     THEN [s1 EXCEPT !.state = "collecting_feedback"]
     ELSE [s1 EXCEPT !.state = "completed", !.completed_at = Some(now)]

\* FeedbackSession.advance_to_next_standard
advance_to_next_standard(s, now) ==
  LET s1 == [s EXCEPT !.current_standard_index = @ + 1]
      next_standard == get_next_standard(s1)
  IN IF next_standard # None
     THEN [s1 EXCEPT !.current_standard = next_standard,
                     !.state = "collecting_feedback"]
     ELSE [s1 EXCEPT !.state = "completed",
                     !.completed_at = Some(now)]

\* FeedbackSession.is_complete
is_complete(s) == s.current_standard_index >= 4

\* what an operation did: the chains it invoked, and how it ended
Outcome(op, text, session, raised, response, invoked) ==
  [op |-> op, text |-> text, session |-> session, raised |-> raised,
   response |-> response, invoked |-> invoked]

\* one call of a chain: the user texts handed to it and what came back
\* (None: the chain raised)
Invocation(chain, texts, output) ==
  [chain |-> chain, texts |-> texts, output |-> output]

(* --------------------- LangGraphFeedbackChatbot ----------------------- *)
(* backend/main_langgraph.py: the state of one chatbot and the run of its  *)
(* graph that process_message starts.  A run executes one node at a time;  *)
(* after a node, route_user_input names the next one and the graph looks   *)
(* the name up in the node's mapping.  The messages and the token counts   *)
(* of FeedbackState are written and read for the prompts and the reply     *)
(* only; they are left out.                                                *)

\* str.lower() of the user inputs and of the keys and names of STANDARDS_DATA
to_lower(s) ==
  [i \in 1..Len(s) |->
     CASE s[i] = "A" -> "a" [] s[i] = "B" -> "b" [] s[i] = "C" -> "c"
       [] s[i] = "E" -> "e" [] s[i] = "F" -> "f" [] s[i] = "K" -> "k"
       [] s[i] = "P" -> "p" [] s[i] = "R" -> "r" [] s[i] = "S" -> "s"
       [] OTHER -> s[i]]

\* STANDARDS_DATA: the keys in insertion order, and the names
Standards == 1..4

StandardKey ==
  <<<<"S","t","a","n","d","a","r","d"," ","1">>,
    <<"S","t","a","n","d","a","r","d"," ","2">>,
    <<"S","t","a","n","d","a","r","d"," ","3">>,
    <<"S","t","a","n","d","a","r","d"," ","4">>>>

StandardName ==
  <<<<"P","r","o","f","e","s","s","i","o","n","a","l"," ","R","e","s","p","o","n","s","i","b","i","l","i","t","y"," ","a","n","d"," ","A","c","c","o","u","n","t","a","b","i","l","i","t","y">>,
    <<"K","n","o","w","l","e","d","g","e","-","B","a","s","e","d"," ","P","r","a","c","t","i","c","e">>,
    <<"C","l","i","e","n","t","-","F","o","c","u","s","e","d"," ","P","r","o","v","i","s","i","o","n"," ","o","f"," ","S","e","r","v","i","c","e">>,
    <<"E","t","h","i","c","a","l"," ","P","r","a","c","t","i","c","e">>>>

\* what a preceptor types at the prompt
Skip == <<"s","k","i","p">>

Done == <<"d","o","n","e">>

ThatsAll == <<"t","h","a","t","'","s"," ","a","l","l">>

Sure == <<"s","u","r","e">>

Standard2 == <<"S","t","a","n","d","a","r","d"," ","2">>

\* the last is the empty input
UserInputs == {GaveMeds, Skip, Done, ThatsAll, Sure, Standard2, <<>>}

quit_commands == {<<"q","u","i","t">>, <<"e","x","i","t">>, <<"s","t","o","p">>, <<"d","o","n","e">>}

skip_commands ==
  {<<"s","k","i","p">>, <<"n","e","x","t">>, <<"n","o","t"," ","r","e","a","l","l","y">>, <<"n","o"," ","t","h","a","n","k","s">>}

accept_words == {<<"y","e","s">>, <<"s","u","r","e">>, <<"o","k","a","y">>, <<"p","l","e","a","s","e">>}

move_on_phrases == {<<"t","h","a","t","'","s"," ","a","l","l">>, <<"m","o","v","e"," ","o","n">>}

\* LangGraphFeedbackChatbot.__init__, "Initialize state"
FeedbackState ==
  [current_input |-> <<>>,
   current_standard |-> Some(1),
   conversation_phase |-> "collecting_feedback",
   standards_completed |-> <<>>,
   feedback_data |-> [std \in Standards |-> None]]

\* the session ids callers of the ChatbotService use
SessionIds == {"A", "B"}

\* RAGService._load_initial_knowledge: the category and source of the
\* documents nursing_knowledge_0 .. nursing_knowledge_7
nursing_knowledge ==
  << <<"feedback_principles", "nursing_education_standards">>,
     <<"clinical_knowledge", "nursing_competency_standards">>,
     <<"patient_care", "nursing_skills_framework">>,
     <<"communication", "nursing_communication_standards">>,
     <<"critical_thinking", "nursing_cognitive_skills">>,
     <<"professionalism", "nursing_professional_standards">>,
     <<"time_management", "nursing_efficiency_standards">>,
     <<"professional_development", "nursing_growth_standards">> >>

\* the collection after RAGService.initialize
KnowledgeBase ==
  { [id |-> <<"nursing_knowledge", i - 1>>,
     document |-> <<"knowledge", i - 1>>,
     category |-> nursing_knowledge[i][1],
     source |-> nursing_knowledge[i][2],
     session_id |-> None,
     section_id |-> None] : i \in DOMAIN nursing_knowledge }

Init ==
  /\ current_session = None
  /\ issued = 0
  /\ clock = 0
  /\ last = [op |-> "init", text |-> None, raised |-> FALSE,
             response |-> [kind |-> "none"], invoked |-> <<>>]
  /\ detours = 0
  /\ sessions = [id \in SessionIds |-> 0]
  /\ objects = <<>>
  /\ collection = KnowledgeBase
  /\ tasks = {}
  /\ calls = 0
  /\ event = [op |-> "init"]
  /\ chatbot = FeedbackState
  /\ run = [status |-> "idle", node |-> "START", steps |-> 0, state |-> FeedbackState]

\* ClinicalFeedbackAgent.start_session; welcome and standard_intro are the
\* outcomes of intro_chain and standard_intro_chain (None: the chain raises)
start_session(id, now, welcome, standard_intro) ==
  LET s0 == FeedbackSession(id, now)
      inv1 == <<Invocation("intro_chain", <<>>, welcome)>>
  IN IF welcome = None
     THEN Outcome("start_session", None, Some(s0), TRUE, [kind |-> "exception"], inv1)
     ELSE
       LET s1 == add_turn(s0, "assistant", [kind |-> "welcome"])
           first_standard == get_next_standard(s1)
           s2 == [s1 EXCEPT !.current_standard = first_standard,
                            !.state = "collecting_feedback"]
           inv2 == Append(inv1, Invocation("standard_intro_chain",
                                           <<>>, standard_intro))
       IN IF standard_intro = None
          THEN Outcome("start_session", None, Some(s2), TRUE, [kind |-> "exception"], inv2)
          ELSE
            LET s3 == add_turn(s2, "assistant",
                               [kind |-> "standard_intro", standard |-> first_standard[1]])
            IN Outcome("start_session", None, Some(s3), FALSE,
                       [kind |-> "welcome_and_intro", standard |-> first_standard[1]], inv2)

Generated == {None, Some("text")}

\* the words _handle_confirmation looks for
revise_words ==
  { <<"c","h","a","n","g","e">>,
    <<"r","e","v","i","s","e">>,
    <<"d","i","f","f","e","r","e","n","t">>,
    <<"n","o">>,
    <<"i","n","c","o","r","r","e","c","t">> }

confirm_words ==
  { <<"y","e","s">>,
    <<"c","o","r","r","e","c","t">>,
    <<"g","o","o","d">>,
    <<"a","c","c","u","r","a","t","e">>,
    <<"f","i","n","e">>,
    <<"o","k">>,
    <<"l","o","o","k","s"," ","g","o","o","d">> }

\* dict lookup in feedback_collected (insertion-ordered, keyed by standard)
has_feedback(s, standard) ==
  \E i \in DOMAIN s.feedback_collected :
    s.feedback_collected[i].standard_name = standard

feedback_index(s, standard) ==
  CHOOSE i \in DOMAIN s.feedback_collected :
    s.feedback_collected[i].standard_name = standard

\* StandardFeedback(standard_name=..., raw_feedback=..., quality_evaluation=...);
\* raw_feedback is the list of the submissions that "\n\n" joins
StandardFeedback(standard, feedback, evaluation) ==
  [standard_name |-> standard,
   raw_feedback |-> <<feedback>>,
   quality_evaluation |-> Some(evaluation),
   summary |-> None,
   suggestion |-> None,
   confirmed |-> FALSE]

\* chains.parse_synthesis_output
parse_synthesis_output(output) ==
  LET lines == split_on(strip(output, Whitespace), "\n", <<>>)
      field(prefix) ==
        LET hits == {i \in DOMAIN lines :
                       lines[i] # <<>> /\ Head(lines[i]) = prefix}
        IN IF hits = {} THEN <<>>
           ELSE LET i == CHOOSE j \in hits : \A k \in hits : k <= j
                IN strip(remove_all(lines[i], prefix), Whitespace)
  IN [summary |-> field("SUMMARY:"), suggestion |-> field("SUGGESTION:")]

\* parse_synthesis_output(synthesis_output), for each output of the chain
parsed_outputs == [o \in SynthesisOutputs |-> parse_synthesis_output(o)]

Ret(op, text, s, response, invoked) ==
  Outcome(op, text, Some(s), FALSE, response, invoked)

Raise(op, text, s, invoked) ==
  Outcome(op, text, Some(s), TRUE, [kind |-> "exception"], invoked)

\* mutant: asks for confirmation without storing what was synthesized
_synthesize_and_confirm_unstored(s, standard, feedback, env, invoked) ==
  LET inv == Append(invoked, Invocation("synthesis_chain", <<feedback>>, env.synthesis))
  IN IF env.synthesis = None
     THEN Raise("process_message", Some(feedback), s, inv)
     ELSE
       LET parsed == parsed_outputs[env.synthesis[1]]
       IN Ret("process_message", Some(feedback),
              [s EXCEPT !.state = "confirming_standard"],
              [kind |-> "confirmation_request", standard |-> standard,
               summary |-> parsed.summary, suggestion |-> parsed.suggestion], inv)

\* ClinicalFeedbackAgent._synthesize_and_confirm
_synthesize_and_confirm(s, standard, feedback, env, invoked) ==
  LET inv == Append(invoked, Invocation("synthesis_chain", <<feedback>>, env.synthesis))
  IN IF env.synthesis = None
     THEN Raise("process_message", Some(feedback), s, inv)
     ELSE
       LET parsed == parsed_outputs[env.synthesis[1]]
           i == feedback_index(s, standard)
           s1 == [s EXCEPT !.feedback_collected[i].summary = Some(parsed.summary),
                           !.feedback_collected[i].suggestion = Some(parsed.suggestion),
                           !.state = "confirming_standard"]
       IN Ret("process_message", Some(feedback), s1,
              [kind |-> "confirmation_request", standard |-> standard,
               summary |-> parsed.summary, suggestion |-> parsed.suggestion], inv)

\* mutant: a new submission takes the place of the earlier ones
store_feedback_replacing(s, current_standard, feedback, evaluation) ==
  IF ~has_feedback(s, current_standard)
  THEN [s EXCEPT !.feedback_collected =
          Append(@, StandardFeedback(current_standard, feedback, evaluation))]
  ELSE LET i == feedback_index(s, current_standard)
       IN [s EXCEPT !.feedback_collected[i].raw_feedback = <<feedback>>,
                    !.feedback_collected[i].quality_evaluation = Some(evaluation)]

\* _handle_feedback_collection, "Store initial feedback": a new record for
\* the standard, or the text appended to the one it has
store_feedback(s, current_standard, feedback, evaluation) ==
  IF ~has_feedback(s, current_standard)
  THEN [s EXCEPT !.feedback_collected =
          Append(@, StandardFeedback(current_standard, feedback, evaluation))]
  ELSE LET i == feedback_index(s, current_standard)
       IN [s EXCEPT !.feedback_collected[i].raw_feedback = Append(@, feedback),
                    !.feedback_collected[i].quality_evaluation = Some(evaluation)]

\* _handle_feedback_collection, "Need more information - probe"
probe(s, feedback, env, invoked) ==
  LET inv == Append(invoked, Invocation("probe_chain", <<feedback>>, env.generated))
  IN IF env.generated = None
     THEN Raise("process_message", Some(feedback), s, inv)
     ELSE Ret("process_message", Some(feedback), s, [kind |-> "probe_question"], inv)

\* mutant: anything better than vague is synthesized
_handle_feedback_collection_eager(s, feedback, env, invoked) ==
  LET current_standard == s.current_standard[1]
      inv == Append(invoked, Invocation("evaluation_chain", <<feedback>>, env.evaluation))
  IN IF env.evaluation = None
     THEN Raise("process_message", Some(feedback), s, inv)
     ELSE
       LET evaluation == env.evaluation[1]
           s1 == store_feedback(s, current_standard, feedback, evaluation)
       IN IF evaluation.quality # "vague"
          THEN _synthesize_and_confirm(s1, current_standard, feedback,
                                       [env EXCEPT !.synthesis = Some(GoodSynthesis)], inv)
          ELSE probe(s1, feedback, env, inv)

\* ClinicalFeedbackAgent._handle_feedback_collection
_handle_feedback_collection(s, feedback, env, invoked) ==
  LET current_standard == s.current_standard[1]
      inv == Append(invoked, Invocation("evaluation_chain", <<feedback>>, env.evaluation))
  IN IF env.evaluation = None
     THEN Raise("process_message", Some(feedback), s, inv)
     ELSE
       LET evaluation == env.evaluation[1]
           s1 == store_feedback(s, current_standard, feedback, evaluation)
       IN IF evaluation.quality = "specific_with_example"
          THEN _synthesize_and_confirm(s1, current_standard, feedback, env, inv)
          ELSE probe(s1, feedback, env, inv)

\* the three ways _handle_confirmation reads a reply
classify(response) ==
  LET response_lower == lower(Corpus[response])
  IN IF \E word \in revise_words : Contains(response_lower, word) THEN "revise"
     ELSE IF \E word \in confirm_words : Contains(response_lower, word) THEN "confirm"
     ELSE "ambiguous"

\* _handle_confirmation, "Go back to collecting feedback"
revise(s, response, invoked) ==
  Ret("process_message", Some(response),
      [s EXCEPT !.state = "collecting_feedback"],
      [kind |-> "revise_ack"], invoked)

\* mutant: the index moves on without the category being marked
confirm_unmarked(s, response, env, invoked, now) ==
  LET s2 == advance_to_next_standard(s, now)
  IN IF is_complete(s2)
     THEN
       LET inv == Append(invoked, Invocation("final_report_chain", <<>>, env.generated))
       IN IF env.generated = None
          THEN Raise("process_message", Some(response), s2, inv)
          ELSE Ret("process_message", Some(response), s2,
                   [kind |-> "email_request"], inv)
     ELSE
       LET inv == Append(invoked, Invocation("standard_intro_chain", <<>>, env.generated))
       IN IF env.generated = None
          THEN Raise("process_message", Some(response), s2, inv)
          ELSE Ret("process_message", Some(response), s2,
                   [kind |-> "next_standard_intro",
                    standard |-> s2.current_standard[1]], inv)

\* _handle_confirmation, "Mark as confirmed" and "Move to next standard"
confirm(s, response, env, invoked, now) ==
  LET i == feedback_index(s, s.current_standard[1])
      s1 == [s EXCEPT !.feedback_collected[i].confirmed = TRUE]
      s2 == advance_to_next_standard(s1, now)
  IN IF is_complete(s2)
     THEN \* _request_email
       LET inv == Append(invoked, Invocation("final_report_chain", <<>>, env.generated))
       IN IF env.generated = None
          THEN Raise("process_message", Some(response), s2, inv)
          ELSE Ret("process_message", Some(response), s2,
                   [kind |-> "email_request"], inv)
     ELSE
       LET inv == Append(invoked, Invocation("standard_intro_chain", <<>>, env.generated))
       IN IF env.generated = None
          THEN Raise("process_message", Some(response), s2, inv)
          ELSE Ret("process_message", Some(response), s2,
                   [kind |-> "next_standard_intro",
                    standard |-> s2.current_standard[1]], inv)

\* _handle_confirmation, "Unclear response - ask for clarification"
clarify(s, response, invoked) ==
  Ret("process_message", Some(response), s,
      [kind |-> "confirm_clarification"], invoked)

\* mutant: whatever is not a revision counts as a confirmation
_handle_confirmation_lenient(s, response, env, invoked, now) ==
  IF classify(response) = "revise"
  THEN revise(s, response, invoked)
  ELSE confirm(s, response, env, invoked, now)

\* mutant: whatever is not a confirmation counts as a revision
_handle_confirmation_coercing(s, response, env, invoked, now) ==
  IF classify(response) = "confirm"
  THEN confirm(s, response, env, invoked, now)
  ELSE revise(s, response, invoked)

\* mutant: a revision steps back to the category before
_handle_confirmation_rewinding(s, response, env, invoked, now) ==
  IF classify(response) = "revise"
  THEN Ret("process_message", Some(response),
           [s EXCEPT !.state = "collecting_feedback",
                     !.current_standard_index = IF @ > 0 THEN @ - 1 ELSE @],
           [kind |-> "revise_ack"], invoked)
  ELSE IF classify(response) = "confirm"
  THEN confirm(s, response, env, invoked, now)
  ELSE clarify(s, response, invoked)

\* mutant: the confirm keywords are looked for first
_handle_confirmation_eager(s, response, env, invoked, now) ==
  LET response_lower == lower(Corpus[response])
  IN IF \E word \in confirm_words : Contains(response_lower, word)
     THEN confirm(s, response, env, invoked, now)
     ELSE IF classify(response) = "revise"
     THEN revise(s, response, invoked)
     ELSE clarify(s, response, invoked)

\* ClinicalFeedbackAgent._handle_confirmation
_handle_confirmation(s, response, env, invoked, now) ==
  IF classify(response) = "revise"
  THEN revise(s, response, invoked)
  ELSE IF classify(response) = "confirm"
  THEN confirm(s, response, env, invoked, now)
  ELSE clarify(s, response, invoked)

\* response.split(), for each message
message_words == [m \in DOMAIN Corpus |-> split_ws(Corpus[m], <<>>)]

\* mutant: the word is stored with its trailing punctuation
_handle_post_completion_unstripped(s, message, invoked) ==
  LET words == message_words[message]
      hits == {i \in DOMAIN words : Contains(words[i], <<"@">>)}
  IN IF Contains(Corpus[message], <<"@">>) /\ hits # {}
     THEN
       LET email == words[CHOOSE i \in hits : \A j \in hits : i <= j]
           s1 == [s EXCEPT !.preceptor_email = Some(email)]
       IN Ret("process_message", Some(message), s1,
              [kind |-> "email_recorded", email |-> s1.preceptor_email[1]], invoked)
     ELSE Ret("process_message", Some(message), s, [kind |-> "thanks"], invoked)

\* ClinicalFeedbackAgent._handle_post_completion
_handle_post_completion(s, message, invoked) ==
  LET words == message_words[message]
      hits == {i \in DOMAIN words : Contains(words[i], <<"@">>)}
  IN IF Contains(Corpus[message], <<"@">>) /\ hits # {}
     THEN
       LET email == words[CHOOSE i \in hits : \A j \in hits : i <= j]
           s1 == [s EXCEPT !.preceptor_email = Some(strip(email, {".", ",", ";", ":"}))]
       IN Ret("process_message", Some(message), s1,
              [kind |-> "email_recorded", email |-> s1.preceptor_email[1]], invoked)
     ELSE Ret("process_message", Some(message), s, [kind |-> "thanks"], invoked)

\* mutant: a message with an '@' is taken for the address in any state
route_address_anywhere(s0, user_message, env, inv, now) ==
  LET r == IF Contains(Corpus[user_message], <<"@">>) \/ s0.state = "completed"
           THEN _handle_post_completion(s0, user_message, inv)
           ELSE IF s0.state = "collecting_feedback"
           THEN _handle_feedback_collection(s0, user_message, env, inv)
           ELSE IF s0.state = "confirming_standard"
           THEN _handle_confirmation(s0, user_message, env, inv, now)
           ELSE Ret("process_message", Some(user_message), s0,
                    [kind |-> "not_sure"], inv)
  IN IF r.raised THEN r
     ELSE [r EXCEPT !.session = Some(add_turn(r.session[1], "assistant", r.response))]

\* process_message, "Route based on current state", and the closing add_turn
route(s0, user_message, env, inv, now) ==
  LET r == IF s0.state = "collecting_feedback"
           THEN _handle_feedback_collection(s0, user_message, env, inv)
           ELSE IF s0.state = "confirming_standard"
           THEN _handle_confirmation(s0, user_message, env, inv, now)
           ELSE IF s0.state = "completed"
           THEN _handle_post_completion(s0, user_message, inv)
           ELSE Ret("process_message", Some(user_message), s0,
                    [kind |-> "not_sure"], inv)
  IN IF r.raised THEN r
     ELSE [r EXCEPT !.session = Some(add_turn(r.session[1], "assistant", r.response))]

\* mutant: the verdict of the privacy filter is not looked at
process_message_unfiltered(cs, user_message, env, now) ==
  IF cs = None
  THEN Outcome("process_message", Some(user_message), cs, FALSE,
               [kind |-> "no_active_session"], <<>>)
  ELSE
    LET s0 == add_turn(cs[1], "preceptor", [text |-> user_message])
        inv == <<Invocation("privacy_chain", <<user_message>>, env.privacy)>>
    IN IF env.privacy = None
       THEN Raise("process_message", Some(user_message), s0, inv)
       ELSE route(s0, user_message,
                  [env EXCEPT !.evaluation = Some(GoodEvaluation),
                              !.synthesis = Some(GoodSynthesis),
                              !.generated = Some("text")], inv, now)

\* ClinicalFeedbackAgent.process_message; env holds the outcome of each chain
\* the call may invoke (None: the chain raises)
process_message(cs, user_message, env, now) ==
  IF cs = None
  THEN Outcome("process_message", Some(user_message), cs, FALSE,
               [kind |-> "no_active_session"], <<>>)
  ELSE
    LET s0 == add_turn(cs[1], "preceptor", [text |-> user_message])
        inv == <<Invocation("privacy_chain", <<user_message>>, env.privacy)>>
    IN IF env.privacy = None
       THEN Raise("process_message", Some(user_message), s0, inv)
       ELSE IF ~env.privacy[1].is_safe
       THEN Ret("process_message", Some(user_message),
                add_turn(s0, "assistant", [kind |-> "privacy_violation"]),
                [kind |-> "privacy_violation"], inv)
       ELSE route(s0, user_message, env, inv, now)

\* config.BCCNM_STANDARDS[standard]['full_name']
full_name(standard) ==
  CASE standard = "professional_responsibility"
         -> "Professional Responsibility and Accountability"
    [] standard = "knowledge_based_practice" -> "Knowledge-Based Practice"
    [] standard = "client_focused_service" -> "Client-Focused Provision of Service"
    [] standard = "ethical_practice" -> "Ethical Practice"

\* x or ""
or_empty(x) == IF x = None THEN <<>> ELSE x[1]

\* FinalReport(session_id=..., standards_feedback=...); generated_at takes
\* datetime.now() when the report is built
FinalReport(session_id, standards_feedback, now) ==
  [session_id |-> session_id, generated_at |-> now,
   standards_feedback |-> standards_feedback]

\* mutant: every entry of the report carries the time it was compiled
compile_report_stamped(s, now) ==
  FinalReport(s.session_id,
              [i \in DOMAIN s.feedback_collected |->
                 [standard |-> full_name(s.feedback_collected[i].standard_name),
                  summary |-> or_empty(s.feedback_collected[i].summary),
                  suggestion |-> or_empty(s.feedback_collected[i].suggestion),
                  raw_feedback |-> s.feedback_collected[i].raw_feedback,
                  timestamp |-> now]],
              now)

\* mutant: the entries come out last category first
compile_report_reversed(s, now) ==
  FinalReport(s.session_id,
              [i \in DOMAIN s.feedback_collected |->
                 LET f == s.feedback_collected[Len(s.feedback_collected) + 1 - i]
                 IN [standard |-> full_name(f.standard_name),
                     summary |-> or_empty(f.summary),
                     suggestion |-> or_empty(f.suggestion),
                     raw_feedback |-> f.raw_feedback]],
              now)

\* generate_final_report past its guard: one entry per item of
\* feedback_collected, in the order of the dict
compile_report(s, now) ==
  FinalReport(s.session_id,
              [i \in DOMAIN s.feedback_collected |->
                 [standard |-> full_name(s.feedback_collected[i].standard_name),
                  summary |-> or_empty(s.feedback_collected[i].summary),
                  suggestion |-> or_empty(s.feedback_collected[i].suggestion),
                  raw_feedback |-> s.feedback_collected[i].raw_feedback]],
              now)

\* mutant: a report of whatever has been collected so far
generate_final_report_unguarded(cs, now) ==
  IF cs = None
  THEN Outcome("generate_final_report", None, cs, TRUE, [kind |-> "ValueError"], <<>>)
  ELSE Outcome("generate_final_report", None, cs, FALSE,
               [kind |-> "report", report |-> compile_report(cs[1], now)], <<>>)

\* ClinicalFeedbackAgent.generate_final_report
generate_final_report(cs, now) ==
  IF cs = None \/ ~is_complete(cs[1])
  THEN Outcome("generate_final_report", None, cs, TRUE, [kind |-> "ValueError"], <<>>)
  ELSE Outcome("generate_final_report", None, cs, FALSE,
               [kind |-> "report", report |-> compile_report(cs[1], now)], <<>>)

\* the output a chain gives on the plain run
PlainOutput(chain) ==
  CASE chain = "privacy_chain" -> Some([is_safe |-> TRUE])
    [] chain = "evaluation_chain" -> Some(GoodEvaluation)
    [] chain = "synthesis_chain" -> Some(GoodSynthesis)
    [] OTHER -> Some("text")

\* the message a cooperative preceptor sends in the session's phase
PlainText(cs) ==
  IF cs = None THEN None
  ELSE IF cs[1].state = "collecting_feedback" THEN Some(FeedbackText)
  ELSE IF cs[1].state = "confirming_standard" THEN Some(YesText)
  ELSE IF cs[1].state = "completed" /\ cs[1].preceptor_email = None THEN Some(EmailText)
  ELSE None

Departures(invoked) ==
  Cardinality({i \in DOMAIN invoked :
                 invoked[i].output # PlainOutput(invoked[i].chain)})

PrivacyResults == {None, Some([is_safe |-> TRUE]), Some([is_safe |-> FALSE])}

\* the outcomes of the chains a process_message call can reach from cs
Envs(cs) ==
  LET env(p, e, y, g) ==
        [privacy |-> p, evaluation |-> e, synthesis |-> y, generated |-> g]
      safe == Some([is_safe |-> TRUE])
      st == IF cs = None THEN "none" ELSE cs[1].state
  IN {env(p, None, None, None) : p \in PrivacyResults \ {safe}}
     \cup
     (IF st = "collecting_feedback"
      THEN {env(safe, None, None, None)}
           \cup {env(safe, Some(e), None, g) :
                   e \in {x \in Evaluations : x.quality # "specific_with_example"},
                   g \in Generated}
           \cup {env(safe, Some(e), y, None) :
                   e \in {x \in Evaluations : x.quality = "specific_with_example"},
                   y \in {None} \cup {Some(o) : o \in SynthesisOutputs}}
      ELSE IF st = "confirming_standard"
      THEN {env(safe, None, None, g) : g \in Generated}
      ELSE {env(safe, None, None, None)})

\* datetime.now() was read for completed_at
Reads(cs, cs2) ==
  cs # None /\ cs[1].completed_at # cs2[1].completed_at

Record(r) ==
  [op |-> r.op, text |-> r.text, raised |-> r.raised,
   response |-> r.response, invoked |-> r.invoked]

StartSession ==
  \E welcome \in Generated, standard_intro \in Generated :
    \E r \in {start_session(issued + 1, clock + 1, welcome, standard_intro)} :
      \E cost \in {(IF current_session # None THEN 1 ELSE 0) + Departures(r.invoked)} :
        /\ detours + cost <= MaxDetours
        /\ detours' = detours + cost
        /\ issued' = issued + 1
        /\ clock' = clock + 1
        /\ current_session' = r.session
        /\ last' = Record(r)
        /\ UNCHANGED <<service, chatbot, run>>

ProcessMessage ==
  \E user_message \in Texts :
    \E textcost \in {IF PlainText(current_session) = Some(user_message) THEN 0 ELSE 1} :
      /\ detours + textcost <= MaxDetours
      /\ \E env \in Envs(current_session) :
           \E r \in {process_message(current_session, user_message, env, clock + 1)} :
             \E cost \in {textcost + Departures(r.invoked)} :
               /\ detours + cost <= MaxDetours
               /\ detours' = detours + cost
               /\ clock' = IF Reads(current_session, r.session) THEN clock + 1 ELSE clock
               /\ current_session' = r.session
               /\ last' = Record(r)
               /\ UNCHANGED <<issued, service, chatbot, run>>

\* the report a caller asks for once the address is recorded is part of the
\* plain run; any other call of generate_final_report is a departure
PlainReport(cs) ==
  /\ cs # None
  /\ cs[1].state = "completed"
  /\ cs[1].preceptor_email # None
  /\ last.op # "generate_final_report"

GenerateFinalReport ==
  \E r \in {generate_final_report(current_session, clock + 1)} :
    \E cost \in {IF PlainReport(current_session) THEN 0 ELSE 1} :
      /\ detours + cost <= MaxDetours
      /\ detours' = detours + cost
      /\ clock' = IF r.raised THEN clock ELSE clock + 1
      /\ last' = Record(r)
      /\ UNCHANGED <<current_session, issued, service, chatbot, run>>

Next == StartSession \/ ProcessMessage \/ GenerateFinalReport

Spec == Init /\ [][Next]_vars

\* the calls in a row, up to now, that raised: each left its preceptor turn
\* without an assistant turn after it
RECURSIVE TrailingFailures(_)
TrailingFailures(h) ==
  IF h = <<>> \/ h[Len(h)].speaker # "preceptor" THEN 0
  ELSE 1 + TrailingFailures(SubSeq(h, 1, Len(h) - 1))

\* the caller sends the message of a call that raised once more, and a chain
\* fails again
Retry ==
  /\ current_session # None
  /\ last.op = "process_message"
  /\ last.raised
  /\ TrailingFailures(current_session[1].conversation_history) < MaxAttempts
  /\ \E env \in Envs(current_session) :
       \E r \in {process_message(current_session, last.text[1], env, clock + 1)} :
         /\ r.raised
         /\ clock' = IF Reads(current_session, r.session) THEN clock + 1 ELSE clock
         /\ current_session' = r.session
         /\ last' = Record(r)
         /\ UNCHANGED <<issued, detours, service, chatbot, run>>

\* a reply of the kinds in Replies
ProcessReply ==
  /\ current_session # None
  /\ \E user_message \in Replies(current_session[1].state),
        env \in Envs(current_session) :
       \E r \in {process_message(current_session, user_message, env, clock + 1)} :
         \E cost \in {1 + Departures(r.invoked)} :
           /\ detours + cost <= MaxDetours
           /\ detours' = detours + cost
           /\ clock' = IF Reads(current_session, r.session) THEN clock + 1 ELSE clock
           /\ current_session' = r.session
           /\ last' = Record(r)
           /\ UNCHANGED <<issued, service, chatbot, run>>

NextReplies == StartSession \/ ProcessMessage \/ GenerateFinalReport \/ ProcessReply

SpecReplies == Init /\ [][NextReplies]_vars

\* a call of the cooperative run: no chain fails and the message passes the
\* privacy check
Cooperative(l) ==
  /\ ~l.raised
  /\ \A i \in DOMAIN l.invoked :
       /\ l.invoked[i].output # None
       /\ l.invoked[i].chain = "privacy_chain"
            => l.invoked[i].output = Some([is_safe |-> TRUE])

\* the one session of the run is started
CooperativeStart == current_session = None /\ StartSession /\ Cooperative(last')

\* a message while the session waits for one: feedback in the collecting
\* phase, any reply to a confirmation request or to the address request
CooperativeMessage ==
  /\ PlainText(current_session) # None
  /\ ProcessMessage
  /\ Cooperative(last')
  /\ current_session[1].state = "collecting_feedback" => last'.text = Some(FeedbackText)

\* the report is asked for once the address is recorded
CooperativeReport == PlainReport(current_session) /\ GenerateFinalReport

NextCooperative == CooperativeStart \/ CooperativeMessage \/ CooperativeReport

\* the outcomes of the chains on the plain run
PlainEnv ==
  [privacy |-> PlainOutput("privacy_chain"),
   evaluation |-> PlainOutput("evaluation_chain"),
   synthesis |-> PlainOutput("synthesis_chain"),
   generated |-> PlainOutput("standard_intro_chain")]

\* the next call of the plain run: the session is started, the preceptor
\* sends the message of the phase, the caller asks for the report
PlainStart ==
  /\ current_session = None
  /\ \E r \in {start_session(issued + 1, clock + 1, PlainEnv.generated, PlainEnv.generated)} :
       /\ current_session' = r.session
       /\ last' = Record(r)
       /\ issued' = issued + 1
       /\ clock' = clock + 1
       /\ UNCHANGED <<detours, service, chatbot, run>>

PlainMessage ==
  /\ PlainText(current_session) # None
  /\ \E r \in {process_message(current_session, PlainText(current_session)[1],
                                PlainEnv, clock + 1)} :
       /\ current_session' = r.session
       /\ last' = Record(r)
       /\ clock' = IF Reads(current_session, r.session) THEN clock + 1 ELSE clock
       /\ UNCHANGED <<issued, detours, service, chatbot, run>>

PlainCall ==
  /\ PlainReport(current_session)
  /\ \E r \in {generate_final_report(current_session, clock + 1)} :
       /\ last' = Record(r)
       /\ clock' = clock + 1
       /\ UNCHANGED <<current_session, issued, detours, service, chatbot, run>>

\* whatever else they do in between, the preceptor and the caller get to the
\* next call of the plain run
SpecCooperative ==
  Init /\ [][NextCooperative]_vars /\ WF_vars(PlainStart \/ PlainMessage \/ PlainCall)

NextRetry == StartSession \/ ProcessMessage \/ GenerateFinalReport \/ Retry

SpecRetry == Init /\ [][NextRetry]_vars

(* ------------------------- ChatbotService ----------------------------- *)
(* backend/services: the sessions of one ChatbotService on the asyncio     *)
(* event loop, and the collection of its RAGService.  A coroutine runs     *)
(* without interruption up to an await of self.llm.ainvoke; the RAGService *)
(* coroutines hold no await of their own and run within the step that      *)
(* calls them.  The timestamps of SessionState are written and never read; *)
(* they are left out.                                                      *)

\* len(FEEDBACK_SECTIONS)
NumSections == 8

FEEDBACK_SECTIONS == 1..NumSections

\* self.min_response_length
min_response_length == 50

\* the messages a preceptor sends to the service: one short of the minimum
\* once its surrounding whitespace is stripped, one of the minimum length,
\* one of twice that
VagueMessage ==
  <<"T","h","e"," ","s","t","u","d","e","n","t"," ","w","a","s"," ","o",
    "k","a","y"," ","w","i","t","h"," ","c","o","m","m","u","n","i","c",
    "a","t","i","o","n",".">>
    \o [i \in 1..min_response_length |-> " "]

Detailed == [i \in 1..min_response_length |-> "x"]

Thorough == [i \in 1..(2 * min_response_length) |-> "x"]

ServiceCorpus == <<VagueMessage, Detailed, Thorough>>

Messages == 1..Len(ServiceCorpus)

MessageOf(chars) == CHOOSE i \in Messages : ServiceCorpus[i] = chars

\* len(message.strip())
stripped_length == [m \in Messages |-> Len(strip(ServiceCorpus[m], Whitespace))]

\* what self.llm.ainvoke(analysis_prompt) answers, as tokens
SufficientJson == <<"{", "is_sufficient", ":", "true", "}">>

InsufficientJson == <<"{", "is_sufficient", ":", "false", "}">>

EmptyJson == <<"{", "}">>

Prose == <<"Sure", ":", "{", "is_sufficient", ":", "true", "}">>

AnalysisOutputs ==
  {None, Some(SufficientJson), Some(InsufficientJson), Some(EmptyJson), Some(Prose)}

\* json.loads, on the outputs above: an object of at most one boolean member
json_loads(content) ==
  IF Len(content) >= 2 /\ content[1] = "{" /\ content[Len(content)] = "}"
  THEN LET body == SubSeq(content, 2, Len(content) - 1)
       IN IF body = <<>>
          THEN [decoded |-> TRUE, data |-> <<>>]
          ELSE IF Len(body) = 3 /\ body[2] = ":" /\ body[3] \in {"true", "false"}
          THEN [decoded |-> TRUE, data |-> (body[1] :> (body[3] = "true"))]
          ELSE [decoded |-> FALSE, data |-> <<>>]
  ELSE [decoded |-> FALSE, data |-> <<>>]

\* dict.get(key, default)
get(data, key, default) == IF key \in DOMAIN data THEN data[key] ELSE default

\* SessionState.__init__
SessionState(session_id) ==
  [session_id |-> session_id,
   current_section |-> 1,
   completed_sections |-> {},
   section_responses |-> <<>>,
   conversation_history |-> <<>>]

\* SessionState.add_message
add_message(st, role, content) ==
  [st EXCEPT !.conversation_history = Append(@, [role |-> role, content |-> content])]

\* SessionState.add_section_response
add_section_response(st, section_id, response) ==
  IF section_id \notin DOMAIN st.section_responses
  THEN [st EXCEPT !.section_responses = (section_id :> <<response>>) @@ @]
  ELSE [st EXCEPT !.section_responses[section_id] = Append(@, response)]

\* SessionState.mark_section_complete
mark_section_complete(st, section_id) ==
  LET st1 == [st EXCEPT !.completed_sections = @ \cup {section_id}]
  IN IF section_id < NumSections
     THEN [st1 EXCEPT !.current_section = section_id + 1]
     ELSE st1

\* ChatbotService._get_section_category
_get_section_category(section_id) ==
  CASE section_id = 1 -> "clinical_knowledge"
    [] section_id = 2 -> "patient_care"
    [] section_id = 3 -> "communication"
    [] section_id = 4 -> "critical_thinking"
    [] section_id = 5 -> "professionalism"
    [] section_id = 6 -> "time_management"
    [] section_id = 7 -> "professional_development"
    [] section_id = 8 -> "feedback_principles"
    [] OTHER -> "nursing_feedback"

\* RAGService.retrieve_relevant_context: the ids of the documents of the
\* category (fewer than top_k of them); queried is FALSE when the query raises
retrieve_relevant_context(coll, category, queried) ==
  IF queried THEN {d.id : d \in {x \in coll : x.category = category}} ELSE {}

\* RAGService.add_session_feedback: stored is FALSE when collection.add
\* raises; an id the collection already has is not added again
add_session_feedback(coll, session_id, section_id, feedback_content, stored) ==
  LET doc_id == <<"session", session_id, "section", section_id>>
  IN IF stored /\ ~\E d \in coll : d.id = doc_id
     THEN coll \cup { [id |-> doc_id,
                       document |-> <<"feedback", feedback_content>>,
                       category |-> "session_feedback",
                       source |-> "user_input",
                       session_id |-> Some(session_id),
                       section_id |-> Some(section_id)] }
     ELSE coll

\* RAGService.clear_session_data: cleared is FALSE when the query or the
\* delete raises
clear_session_data(coll, session_id, cleared) ==
  IF cleared THEN {d \in coll : d.session_id # Some(session_id)} ELSE coll

\* mutant: every id is served by the session object made first
_get_or_create_session_shared(ss, objs, session_id) ==
  IF ss[session_id] # 0
  THEN [sessions |-> ss, objects |-> objs, session |-> ss[session_id]]
  ELSE IF objs # <<>>
  THEN [sessions |-> [ss EXCEPT ![session_id] = 1], objects |-> objs, session |-> 1]
  ELSE [sessions |-> [ss EXCEPT ![session_id] = 1],
        objects |-> <<SessionState(session_id)>>, session |-> 1]

\* ChatbotService._get_or_create_session; self.sessions maps an id to the
\* place of its SessionState among the objects made so far (0: no entry)
_get_or_create_session(ss, objs, session_id) ==
  IF ss[session_id] = 0
  THEN [sessions |-> [ss EXCEPT ![session_id] = Len(objs) + 1],
        objects |-> Append(objs, SessionState(session_id)),
        session |-> Len(objs) + 1]
  ELSE [sessions |-> ss, objects |-> objs, session |-> ss[session_id]]

\* _analyze_response_quality, "Basic length check"
too_short(message) ==
  stripped_length[message] < min_response_length

\* _analyze_response_quality from "Get LLM analysis" on; output is what
\* self.llm.ainvoke came back with (None: it raised)
_analyze_response_quality(message, output) ==
  IF output = None
  THEN [is_sufficient |-> FALSE, reason |-> "analysis_error"]
  ELSE LET parsed == json_loads(output[1])
       IN IF parsed.decoded
          THEN [is_sufficient |-> get(parsed.data, "is_sufficient", FALSE),
                reason |-> "analysis_complete"]
          ELSE [is_sufficient |-> stripped_length[message] >= min_response_length * 2,
                reason |-> "fallback_analysis"]

\* _generate_ai_response: the prompt it builds
prompt_for(section_id, analysis) ==
  IF analysis.is_sufficient
  THEN IF section_id >= NumSections THEN "thank_and_close" ELSE "introduce_next"
  ELSE "ask_for_detail"

\* _generate_ai_response: the content it returns; output is what
\* self.llm.ainvoke came back with (None: it raised)
_generate_ai_response(section_id, analysis, output) ==
  IF output = None
  THEN [kind |-> "fallback", prompt |-> "none"]
  ELSE [kind |-> "generated", prompt |-> prompt_for(section_id, analysis)]

\* a process_message coroutine suspended at an await of self.llm.ainvoke
Task(call, session_id, message, section_id, session, context, analysis, at) ==
  [call |-> call, session_id |-> session_id, message |-> message,
   section_id |-> section_id, session |-> session, context |-> context,
   analysis |-> analysis, at |-> at]

\* what the last step of the service did
Event(op, step, call, session_id, message, section_id, session, analysis, response) ==
  [op |-> op, step |-> step, call |-> call, session_id |-> session_id,
   message |-> message, section_id |-> section_id, session |-> session,
   analysis |-> analysis, response |-> response]

\* process_message, the dict it returns from the except branch
error_response(section_id) ==
  [response |-> [kind |-> "error", prompt |-> "none"],
   current_section |-> section_id,
   is_section_complete |-> FALSE,
   next_action |-> "retry"]

\* ChatbotService.process_message up to its first await of self.llm.ainvoke:
\* the one in _analyze_response_quality, or, for a message that is too
\* short, the one in _generate_ai_response
accept(ss, objs, coll, pending, call, session_id, message, section_id, queried) ==
  LET g == _get_or_create_session(ss, objs, session_id)
      objs1 == [g.objects EXCEPT ![g.session] = add_message(@, "user", message)]
  IN IF section_id \notin FEEDBACK_SECTIONS
     THEN [sessions |-> g.sessions, objects |-> objs1, tasks |-> pending,
           event |-> Event("process_message", "return", call, session_id, Some(message),
                           Some(section_id), g.session, None,
                           Some(error_response(section_id)))]
     ELSE
       LET context == retrieve_relevant_context(coll, _get_section_category(section_id),
                                                queried)
           task == IF too_short(message)
                   THEN Task(call, session_id, message, section_id, g.session, context,
                             Some([is_sufficient |-> FALSE, reason |-> "too_short"]),
                             "generation")
                   ELSE Task(call, session_id, message, section_id, g.session, context,
                             None, "analysis")
       IN [sessions |-> g.sessions, objects |-> objs1, tasks |-> pending \cup {task},
           event |-> Event("process_message", "suspend", call, session_id, Some(message),
                           Some(section_id), g.session, task.analysis, None)]

\* process_message from "Add AI response to history" to its return; the
\* session is the object the coroutine got when it started
finish(objs, coll, task, content, stored) ==
  LET analysis == task.analysis[1]
      st1 == add_message(objs[task.session], "assistant", content)
      st2 == IF analysis.is_sufficient
             THEN mark_section_complete(
                    add_section_response(st1, task.section_id, task.message),
                    task.section_id)
             ELSE st1
      coll1 == IF analysis.is_sufficient
               THEN add_session_feedback(coll, task.session_id, task.section_id,
                                         task.message, stored)
               ELSE coll
      next_action == IF ~analysis.is_sufficient THEN "clarify"
                     ELSE IF task.section_id >= NumSections THEN "complete"
                     ELSE "next_section"
  IN [objects |-> [objs EXCEPT ![task.session] = st2],
      collection |-> coll1,
      event |-> Event("process_message", "return", task.call, task.session_id,
                      Some(task.message), Some(task.section_id), task.session,
                      task.analysis,
                      Some([response |-> content,
                            current_section |-> st2.current_section,
                            is_section_complete |-> next_action = "complete",
                            next_action |-> next_action]))]

\* the section a caller that follows the service's answers sends next
PlainSection(session_id) ==
  IF sessions[session_id] = 0 THEN 1
  ELSE objects[sessions[session_id]].current_section

SectionChoices(session_id) ==
  {PlainSection(session_id), NumSections, NumSections + 1}

\* a caller sends a message: process_message starts and runs to its first
\* suspension, or to its return when the section is not one of the eight
BeginMessage ==
  \E session_id \in SessionIds, message \in Messages, queried \in BOOLEAN :
    \E section_id \in SectionChoices(session_id) :
      \E r \in {accept(sessions, objects, collection, tasks, calls + 1,
                       session_id, message, section_id, queried)} :
        \E cost \in {(IF message = MessageOf(Thorough) THEN 0 ELSE 1)
                     + (IF section_id = PlainSection(session_id) THEN 0 ELSE 1)
                     + (IF queried \/ section_id \notin FEEDBACK_SECTIONS THEN 0 ELSE 1)
                     + (IF \E t \in tasks : t.session_id = session_id THEN 1 ELSE 0)} :
          /\ calls < MaxCalls
          /\ detours + cost <= MaxDetours
          /\ section_id \notin FEEDBACK_SECTIONS => queried
          /\ detours' = detours + cost
          /\ calls' = calls + 1
          /\ sessions' = r.sessions
          /\ objects' = r.objects
          /\ tasks' = r.tasks
          /\ event' = r.event
          /\ UNCHANGED <<collection, current_session, issued, clock, last,
                       chatbot, run>>

\* self.llm.ainvoke(analysis_prompt) comes back and the coroutine runs on to
\* the await in _generate_ai_response
ResumeAnalysis ==
  \E task \in {t \in tasks : t.at = "analysis"}, output \in AnalysisOutputs :
    \E analysis \in {_analyze_response_quality(task.message, output)} :
      \E cost \in {IF output = Some(SufficientJson) THEN 0 ELSE 1} :
        /\ detours + cost <= MaxDetours
        /\ detours' = detours + cost
        /\ tasks' = (tasks \ {task})
                      \cup {[task EXCEPT !.analysis = Some(analysis), !.at = "generation"]}
        /\ event' = Event("process_message", "suspend", task.call, task.session_id,
                          Some(task.message), Some(task.section_id), task.session,
                          Some(analysis), None)
        /\ UNCHANGED <<sessions, objects, collection, calls,
                       current_session, issued, clock, last,
                       chatbot, run>>

\* self.llm.ainvoke(prompt) comes back and the coroutine runs to its return
ResumeGeneration ==
  \E task \in {t \in tasks : t.at = "generation"}, output \in Generated,
     stored \in BOOLEAN :
    \E r \in {finish(objects, collection, task,
                     _generate_ai_response(task.section_id, task.analysis[1], output),
                     stored)} :
      \E cost \in {(IF output = None THEN 1 ELSE 0)
                   + (IF stored THEN 0 ELSE 1)} :
        /\ detours + cost <= MaxDetours
        /\ ~task.analysis[1].is_sufficient => stored
        /\ detours' = detours + cost
        /\ tasks' = tasks \ {task}
        /\ objects' = r.objects
        /\ collection' = r.collection
        /\ event' = r.event
        /\ UNCHANGED <<sessions, calls, current_session, issued, clock, last,
                       chatbot, run>>

\* ChatbotService.reset_session
ResetSession ==
  \E session_id \in SessionIds, cleared \in BOOLEAN :
    \E cost \in {IF cleared THEN 1 ELSE 2} :
      /\ calls < MaxCalls
      /\ detours + cost <= MaxDetours
      /\ detours' = detours + cost
      /\ calls' = calls + 1
      /\ sessions' = [sessions EXCEPT ![session_id] = 0]
      /\ collection' = clear_session_data(collection, session_id, cleared)
      /\ event' = Event("reset_session", "return", calls + 1, session_id, None, None,
                        sessions[session_id], None, None)
      /\ UNCHANGED <<objects, tasks, current_session, issued, clock, last,
                       chatbot, run>>

NextService == BeginMessage \/ ResumeAnalysis \/ ResumeGeneration \/ ResetSession

SpecService == Init /\ [][NextService]_vars

(* ------------------- LangGraphFeedbackChatbot run -------------------- *)

\* route_user_input
route_user_input(state) ==
  LET user_input == to_lower(state.current_input)
      phase == state.conversation_phase
      skips == \E cmd \in skip_commands : Contains(user_input, cmd)
  IN IF user_input = <<>>
     THEN (IF phase = "complete" THEN "complete" ELSE "collect_feedback")
     ELSE IF \E cmd \in quit_commands : Contains(user_input, cmd) THEN "complete"
     ELSE IF skips /\ phase = "collecting_feedback" THEN "generate_summary"
     ELSE IF skips /\ phase = "improvement" THEN "transition"
     ELSE IF phase = "greeting" \/ phase = "collecting_feedback" THEN "collect_feedback"
     ELSE IF phase = "improvement" THEN "improvement_strategies"
     ELSE IF phase = "transition" THEN "transition"
     ELSE IF phase = "complete" THEN "complete"
     ELSE "collect_feedback"

\* create_feedback_graph: the keys of each node's conditional-edge mapping
edges ==
  [collect_feedback |->
     {"collect_feedback", "generate_summary", "transition", "complete"},
   generate_summary |-> {"improvement_strategies", "transition", "complete"},
   improvement_strategies |-> {"improvement_strategies", "transition", "complete"},
   transition |-> {"collect_feedback", "complete"}]

\* what a node gives back: the state with its updates merged, or an exception
Returned(raised, state) == [raised |-> raised, state |-> state]

\* collect_feedback_node; output is what llm.invoke gives (None: it raises)
collect_feedback_node(state, output) ==
  LET user_input == state.current_input
      hits == {std \in Standards :
                 \/ Contains(to_lower(user_input), to_lower(StandardKey[std]))
                 \/ Contains(to_lower(user_input), to_lower(StandardName[std]))}
      current_std == IF hits # {} THEN CHOOSE std \in hits : \A h \in hits : std <= h
                     ELSE IF state.current_standard = None THEN 1
                     ELSE state.current_standard[1]
  IN IF output = None THEN Returned(TRUE, state)
     ELSE
       LET entry == IF state.feedback_data[current_std] = None
                    THEN [responses |-> <<>>, summary |-> FALSE,
                          ai_suggestions |-> FALSE]
                    ELSE state.feedback_data[current_std][1]
           responses == Append(entry.responses, user_input)
           moves_on == /\ Len(responses) >= 3
                       /\ \E phrase \in move_on_phrases :
                            Contains(to_lower(user_input), phrase)
       IN Returned(FALSE, [state EXCEPT
                     !.feedback_data[current_std] =
                        Some([entry EXCEPT !.responses = responses]),
                     !.conversation_phase = IF moves_on THEN "improvement" ELSE @,
                     !.current_standard = Some(current_std)])

\* generate_summary_node
generate_summary_node(state, output) ==
  LET current_std == state.current_standard[1]
  IN IF state.feedback_data[current_std] = None \/ output = None THEN Returned(TRUE, state)
     ELSE Returned(FALSE, [state EXCEPT
                     !.feedback_data[current_std][1].summary = TRUE,
                     !.conversation_phase = "improvement"])

\* improvement_strategies_node
improvement_strategies_node(state, output) ==
  LET current_std == state.current_standard[1]
      user_input == to_lower(state.current_input)
  IN IF state.feedback_data[current_std] = None THEN Returned(TRUE, state)
     ELSE IF \E word \in accept_words : Contains(user_input, word)
     THEN IF output = None THEN Returned(TRUE, state)
          ELSE Returned(FALSE, [state EXCEPT
                          !.feedback_data[current_std][1].ai_suggestions = TRUE])
     ELSE Returned(FALSE, [state EXCEPT !.conversation_phase = "transition"])

\* transition_node
transition_node(state) ==
  LET current_std == state.current_standard[1]
      standards_completed ==
        IF \E i \in DOMAIN state.standards_completed :
             state.standards_completed[i] = current_std
        THEN state.standards_completed
        ELSE Append(state.standards_completed, current_std)
      remaining == {std \in Standards :
                      \A i \in DOMAIN standards_completed :
                        standards_completed[i] # std}
  IN IF remaining # {}
     THEN Returned(FALSE, [state EXCEPT
                     !.current_standard =
                        Some(CHOOSE std \in remaining : \A r \in remaining : std <= r),
                     !.conversation_phase = "collecting_feedback",
                     !.standards_completed = standards_completed])
     ELSE Returned(FALSE, [state EXCEPT
                     !.conversation_phase = "complete",
                     !.standards_completed = standards_completed])

\* complete_node
complete_node(state) == Returned(FALSE, [state EXCEPT !.conversation_phase = "complete"])

execute(node, state, output) ==
  CASE node = "collect_feedback" -> collect_feedback_node(state, output)
    [] node = "generate_summary" -> generate_summary_node(state, output)
    [] node = "improvement_strategies" -> improvement_strategies_node(state, output)
    [] node = "transition" -> transition_node(state)
    [] node = "complete" -> complete_node(state)

\* process_message, "except Exception": self.state is not assigned; the
\* entries of feedback_data it held are the objects the nodes wrote to
kept(before, state) ==
  [before EXCEPT
     !.feedback_data = [std \in Standards |->
                          IF before.feedback_data[std] = None THEN None
                          ELSE state.feedback_data[std]]]

\* LangGraphFeedbackChatbot.process_message up to self.app.invoke: the run
\* starts at the node START leads to
Invoke ==
  \E user_input \in UserInputs :
    /\ run.status # "running"
    /\ calls < MaxCalls
    /\ calls' = calls + 1
    /\ chatbot' = [chatbot EXCEPT !.current_input = user_input]
    /\ run' = [status |-> "running", node |-> "collect_feedback", steps |-> 0,
               state |-> chatbot']
    /\ UNCHANGED <<current_session, issued, clock, last, detours,
                   sessions, objects, collection, tasks, event>>

\* the run executes its next node and follows the edge out of it; at END
\* process_message assigns the result to self.state
ExecuteNode ==
  /\ run.status = "running"
  /\ \E output \in (IF /\ run.steps < MaxSteps
                       /\ run.node \in {"collect_feedback", "generate_summary",
                                        "improvement_strategies"}
                    THEN Generated ELSE {Some("text")}) :
       \E r \in {execute(run.node, run.state, output)} :
         /\ run' =
              IF run.steps >= MaxSteps
              THEN [run EXCEPT !.status = "GraphRecursionError"]
              ELSE IF r.raised
              THEN [run EXCEPT !.status = "exception", !.steps = @ + 1]
              ELSE IF run.node = "complete"
              THEN [status |-> "END", node |-> "END", steps |-> run.steps + 1,
                    state |-> r.state]
              ELSE IF route_user_input(r.state) \notin edges[run.node]
              THEN [run EXCEPT !.status = "KeyError", !.steps = @ + 1,
                               !.state = r.state]
              ELSE [run EXCEPT !.node = route_user_input(r.state),
                               !.steps = @ + 1, !.state = r.state]
         /\ chatbot' = IF run'.status = "END" THEN run'.state
                       ELSE IF run'.status = "running" THEN chatbot
                       ELSE kept(chatbot, run'.state)
  /\ UNCHANGED <<current_session, issued, clock, last, detours,
                 sessions, objects, collection, tasks, calls, event>>

NextGraph == Invoke \/ ExecuteNode

SpecGraph == Init /\ [][NextGraph]_vars

(* ------------------------------ claims -------------------------------- *)

HasSession == current_session # None

S == current_session[1]

\* the step stays within one session object
SameSession ==
  /\ current_session # None
  /\ current_session' # None
  /\ current_session'[1].session_id = current_session[1].session_id

\* the step is a process_message call on the session
Processed == SameSession /\ last'.op = "process_message"

Safe == Some([is_safe |-> TRUE])

\* the privacy filter's verdict in the operation that `l` records
Verdict(l) ==
  IF l.invoked # <<>> /\ l.invoked[1].chain = "privacy_chain"
  THEN l.invoked[1].output ELSE None

\* the index of the chain's invocation in `l`, 0 if it was not invoked
InvokedAt(l, chain) ==
  IF \E i \in DOMAIN l.invoked : l.invoked[i].chain = chain
  THEN CHOOSE i \in DOMAIN l.invoked : l.invoked[i].chain = chain
  ELSE 0

ConfirmedStandards(s) ==
  {s.feedback_collected[i].standard_name :
     i \in {j \in DOMAIN s.feedback_collected : s.feedback_collected[j].confirmed}}

PositionOf(standard) ==
  CHOOSE i \in DOMAIN get_standard_order : get_standard_order[i] = standard

\* what an assistant turn of the history says ("text" for a preceptor turn)
TurnKind(t) == IF t.speaker = "assistant" THEN t.message.kind ELSE "text"

\* everything of the session but its conversation history
Frame(s) == [s EXCEPT !.conversation_history = <<>>]

\* C1: once a session has its first category, the current category is the
\* one at position current_standard_index of the fixed order whenever the
\* index is below 4, and within a session the current category only ever
\* changes to the one immediately following it.
C1_InOrder ==
  [][ /\ (HasSession /\ S.state # "initialized" /\ S.current_standard_index < 4
            => S.current_standard = Some(get_standard_order[S.current_standard_index + 1]))'
      /\ (SameSession /\ S.current_standard # None
            /\ current_session'[1].current_standard # S.current_standard
            => /\ current_session'[1].current_standard # None
               /\ PositionOf(current_session'[1].current_standard[1])
                    = PositionOf(S.current_standard[1]) + 1) ]_vars

C1_Witness ==
  /\ HasSession
  /\ S.current_standard_index = 3
  /\ S.current_standard = Some("ethical_practice")
  /\ Cardinality(ConfirmedStandards(S)) = 3

\* C2: within a session the index changes, or a category becomes confirmed,
\* only in a process_message call received in CONFIRMING_STANDARD whose text
\* passed the privacy filter and is classified confirm.
C2_ConfirmationGate ==
  [][ SameSession
      /\ ( current_session'[1].current_standard_index # S.current_standard_index
           \/ ConfirmedStandards(current_session'[1]) # ConfirmedStandards(S) )
      => /\ last'.op = "process_message"
         /\ S.state = "confirming_standard"
         /\ Verdict(last') = Safe
         /\ classify(last'.text[1]) = "confirm"
         /\ current_session'[1].current_standard_index = S.current_standard_index + 1
         /\ ConfirmedStandards(current_session'[1])
              = ConfirmedStandards(S) \cup {S.current_standard[1]} ]_vars

C2_Witness ==
  /\ HasSession
  /\ last.op = "process_message"
  /\ last.response.kind = "next_standard_intro"
  /\ S.current_standard_index = 1
  /\ ConfirmedStandards(S) = {"professional_responsibility"}

\* C3: a category result that is confirmed has a summary and a suggestion
\* (neither is None).
C3_ConfirmedHasSynthesis ==
  HasSession =>
    \A i \in DOMAIN S.feedback_collected :
      S.feedback_collected[i].confirmed =>
        /\ S.feedback_collected[i].summary # None
        /\ S.feedback_collected[i].suggestion # None

C3_Witness ==
  /\ HasSession
  /\ \E i \in DOMAIN S.feedback_collected :
       /\ S.feedback_collected[i].confirmed
       /\ S.feedback_collected[i].summary # None
       /\ S.feedback_collected[i].suggestion = Some(<<>>)

\* C4: within a session current_standard_index never decreases, a revise
\* reply included.
C4_IndexMonotonic ==
  [][ SameSession
      => current_session'[1].current_standard_index >= S.current_standard_index ]_vars

C4_Witness ==
  /\ HasSession
  /\ last.response.kind = "revise_ack"
  /\ S.current_standard_index = 1
  /\ S.state = "collecting_feedback"

\* C5: a reply received in CONFIRMING_STANDARD that passes the privacy
\* filter and is classified ambiguous changes nothing of the session but
\* its conversation history.
C5_AmbiguousNoChange ==
  [][ Processed
      /\ S.state = "confirming_standard"
      /\ Verdict(last') = Safe
      /\ classify(last'.text[1]) = "ambiguous"
      => Frame(current_session'[1]) = Frame(S) ]_vars

\* two ambiguous replies in a row
C5_Witness ==
  /\ HasSession
  /\ S.state = "confirming_standard"
  /\ LET h == S.conversation_history
     IN /\ Len(h) >= 4
        /\ TurnKind(h[Len(h)]) = "confirm_clarification"
        /\ TurnKind(h[Len(h) - 2]) = "confirm_clarification"

\* C6: a message the privacy filter reports unsafe is answered with the
\* rephrase request and leaves state, index, every category result and the
\* contact address as they were, in whatever state it is received.
C6_UnsafeNoChange ==
  [][ Processed /\ Verdict(last') = Some([is_safe |-> FALSE])
      => /\ ~last'.raised
         /\ last'.response.kind = "privacy_violation"
         /\ current_session'[1].state = S.state
         /\ current_session'[1].current_standard_index = S.current_standard_index
         /\ current_session'[1].current_standard = S.current_standard
         /\ current_session'[1].feedback_collected = S.feedback_collected
         /\ current_session'[1].preceptor_email = S.preceptor_email ]_vars

\* a flagged message carrying an address, after the last category
C6_Witness ==
  /\ HasSession
  /\ S.state = "completed"
  /\ last.text = Some(EmailText)
  /\ last.response.kind = "privacy_violation"
  /\ S.preceptor_email = None

\* C7: raw feedback only ever grows by the text of a process_message call
\* that the privacy filter judged safe, and the evaluation, synthesis and
\* probe chains are only handed text of the call after that verdict.
C7_OnlySafeText ==
  [][ /\ \A i \in DOMAIN last'.invoked :
           last'.invoked[i].chain \in {"evaluation_chain", "synthesis_chain", "probe_chain"}
           => /\ i > 1
              /\ Verdict(last') = Safe
              /\ last'.invoked[i].texts = last'.invoked[1].texts
      /\ (SameSession => Len(current_session'[1].feedback_collected) >= Len(S.feedback_collected))
      /\ (current_session' # None =>
            \A i \in DOMAIN current_session'[1].feedback_collected :
              LET new == current_session'[1].feedback_collected[i].raw_feedback
                  old == IF SameSession /\ i \in DOMAIN S.feedback_collected
                         THEN S.feedback_collected[i].raw_feedback ELSE <<>>
              IN new # old =>
                   /\ last'.op = "process_message"
                   /\ Verdict(last') = Safe
                   /\ new = Append(old, last'.text[1])) ]_vars

C7_Witness ==
  /\ HasSession
  /\ \E i \in DOMAIN S.feedback_collected :
       Len(S.feedback_collected[i].raw_feedback) = 2
  /\ last.response.kind = "confirmation_request"

\* C8: no session field records the text of a process_message call, and no
\* other chain receives it, unless the privacy filter returned a safe
\* verdict for it.
C8_FilterFirst ==
  [][ Processed /\ Verdict(last') # Safe
      => /\ current_session'[1].conversation_history = S.conversation_history
            \/ \A i \in (Len(S.conversation_history) + 1)
                          ..Len(current_session'[1].conversation_history) :
                 current_session'[1].conversation_history[i].speaker # "preceptor"
         /\ Len(last'.invoked) = 1 ]_vars

\* C9: from COLLECTING_FEEDBACK a safe message moves the session to
\* CONFIRMING_STANDARD exactly when the evaluation has tier
\* specific_with_example and the synthesis chain returned (the parsed summary
\* and suggestion are then stored); with tier vague or specific_no_example the
\* session stays in COLLECTING_FEEDBACK on the same category and the probe
\* chain's question is what the call returns.
C9_TierDecides ==
  [][ Processed /\ S.state = "collecting_feedback" /\ Verdict(last') = Safe
      => LET e == InvokedAt(last', "evaluation_chain")
             y == InvokedAt(last', "synthesis_chain")
             g == InvokedAt(last', "probe_chain")
             evaluated == e # 0 /\ last'.invoked[e].output # None
             tier == last'.invoked[e].output[1].quality
             T == current_session'[1]
         IN /\ T.state = "confirming_standard"
                <=> /\ evaluated
                    /\ tier = "specific_with_example"
                    /\ y # 0
                    /\ last'.invoked[y].output # None
            /\ T.state = "confirming_standard"
                => LET parsed == parse_synthesis_output(last'.invoked[y].output[1])
                       r == T.feedback_collected[feedback_index(T, T.current_standard[1])]
                   IN /\ r.summary = Some(parsed.summary)
                      /\ r.suggestion = Some(parsed.suggestion)
                      /\ last'.response.kind = "confirmation_request"
            /\ evaluated /\ tier \in {"vague", "specific_no_example"}
                => /\ T.state = "collecting_feedback"
                   /\ g # 0 /\ y = 0
                   /\ last'.invoked[g].output # None
                        => ~last'.raised /\ last'.response.kind = "probe_question"
            /\ T.current_standard = S.current_standard
            /\ T.current_standard_index = S.current_standard_index ]_vars

\* a probe on a specific_no_example submission, then a synthesis
C9_Witness ==
  /\ HasSession
  /\ S.state = "confirming_standard"
  /\ last.response.kind = "confirmation_request"
  /\ LET h == S.conversation_history
     IN Len(h) >= 4 /\ TurnKind(h[Len(h) - 2]) = "probe_question"

\* C10: a process_message call in which a chain invoked after the privacy
\* filter fails returns a retryable error message and leaves the session's
\* state, index, confirmed flags and stored results as they were.
C10_FailureLeavesSession ==
  [][ Processed
      /\ (\E i \in DOMAIN last'.invoked : i > 1 /\ last'.invoked[i].output = None)
      => /\ ~last'.raised
         /\ current_session'[1].state = S.state
         /\ current_session'[1].current_standard_index = S.current_standard_index
         /\ current_session'[1].feedback_collected = S.feedback_collected ]_vars

\* C11: a session is in the ERROR state exactly when its last three calls
\* (or more) failed in a row, and a process_message call received in ERROR
\* changes nothing of the session.
C11_ThreeStrikes ==
  [][ /\ (HasSession =>
            (TrailingFailures(S.conversation_history) >= 3 <=> S.state = "error"))'
      /\ (Processed /\ S.state = "error" => current_session' = current_session) ]_vars

\* '@' in message
HasAt(text) == Contains(Corpus[text], <<"@">>)

C13_ContactOnlyAfterAll ==
  HasSession /\ S.preceptor_email # None
    => /\ S.current_standard_index = Len(get_standard_order)
       /\ ConfirmedStandards(S) = {get_standard_order[i] : i \in DOMAIN get_standard_order}

\* an address is stored, and a message with an '@' had been sent as feedback
C13_Witness ==
  /\ HasSession
  /\ S.preceptor_email # None
  /\ \E i \in DOMAIN S.feedback_collected :
       \E j \in DOMAIN S.feedback_collected[i].raw_feedback :
         HasAt(S.feedback_collected[i].raw_feedback[j])

\* the record of the session's current category (the session has one)
Current(s) == s.feedback_collected[feedback_index(s, s.current_standard[1])]

\* C14: a revise reply returns the session to COLLECTING_FEEDBACK on the same
\* category with its summary and suggestion cleared, and a session in
\* COLLECTING_FEEDBACK never holds a summary or a suggestion for its current
\* category.
C14_ReviseClears ==
  [][ /\ (HasSession /\ S.state = "collecting_feedback"
            /\ has_feedback(S, S.current_standard[1])
            => Current(S).summary = None /\ Current(S).suggestion = None)'
      /\ (Processed /\ S.state = "confirming_standard" /\ Verdict(last') = Safe
            /\ classify(last'.text[1]) = "revise"
            => /\ current_session'[1].state = "collecting_feedback"
               /\ current_session'[1].current_standard = S.current_standard
               /\ Current(current_session'[1]).summary = None
               /\ Current(current_session'[1]).suggestion = None) ]_vars

\* C15: within a session a confirmed category result keeps its confirmed
\* flag, summary, suggestion and raw feedback through every later call.
C15_ConfirmedLatch ==
  [][ SameSession
      => \A i \in DOMAIN S.feedback_collected :
           S.feedback_collected[i].confirmed
           => /\ i \in DOMAIN current_session'[1].feedback_collected
              /\ LET old == S.feedback_collected[i]
                     new == current_session'[1].feedback_collected[i]
                 IN /\ new.standard_name = old.standard_name
                    /\ new.confirmed
                    /\ new.summary = old.summary
                    /\ new.suggestion = old.suggestion
                    /\ new.raw_feedback = old.raw_feedback ]_vars

\* two categories confirmed, then feedback, a synthesis and an ambiguous
\* reply on the third
C15_Witness ==
  /\ HasSession
  /\ S.current_standard_index = 2
  /\ Cardinality(ConfirmedStandards(S)) = 2
  /\ Len(S.feedback_collected) = 3
  /\ last.response.kind = "confirm_clarification"

\* C16: the text the evaluation chain, and the synthesis chain when it runs,
\* is handed in COLLECTING_FEEDBACK is everything submitted so far for the
\* current category, the new message included.
C16_Cumulative ==
  [][ Processed /\ S.state = "collecting_feedback"
      => LET before == IF has_feedback(S, S.current_standard[1])
                       THEN Current(S).raw_feedback ELSE <<>>
         IN \A i \in DOMAIN last'.invoked :
              last'.invoked[i].chain \in {"evaluation_chain", "synthesis_chain"}
              => last'.invoked[i].texts = Append(before, last'.text[1]) ]_vars

\* a line of the output starts with the prefix
HasField(output, prefix) ==
  LET lines == split_on(strip(output, Whitespace), "\n", <<>>)
  IN \E i \in DOMAIN lines : lines[i] # <<>> /\ Head(lines[i]) = prefix

\* C17: a synthesis output without both a SUMMARY: line and a SUGGESTION:
\* line does not move the session to CONFIRMING_STANDARD, is not shown in a
\* confirmation request and stores nothing on the category.
C17_ParseFailure ==
  [][ Processed /\ InvokedAt(last', "synthesis_chain") # 0
      /\ last'.invoked[InvokedAt(last', "synthesis_chain")].output # None
      /\ (LET o == last'.invoked[InvokedAt(last', "synthesis_chain")].output[1]
          IN ~(HasField(o, "SUMMARY:") /\ HasField(o, "SUGGESTION:")))
      => /\ current_session'[1].state # "confirming_standard"
         /\ last'.response.kind # "confirmation_request"
         /\ Current(current_session'[1]).summary # Some(<<>>)
         /\ Current(current_session'[1]).suggestion # Some(<<>>) ]_vars

\* C18: a process_message call whose privacy check raises returns a retry
\* request, stores the text nowhere in the session and invokes no other
\* chain.
C18_FailClosed ==
  [][ Processed /\ last'.invoked # <<>>
      /\ last'.invoked[1].chain = "privacy_chain"
      /\ last'.invoked[1].output = None
      => /\ ~last'.raised
         /\ Len(last'.invoked) = 1
         /\ \A i \in (Len(S.conversation_history) + 1)
                       ..Len(current_session'[1].conversation_history) :
              current_session'[1].conversation_history[i].speaker # "preceptor"
         /\ Frame(current_session'[1]) = Frame(S) ]_vars

\* two calls of generate_final_report in a row that both returned
TwoReports ==
  /\ last.op = "generate_final_report" /\ ~last.raised
  /\ last'.op = "generate_final_report" /\ ~last'.raised

C20_ReportOnlyWhenCompleted ==
  [][ last'.op = "generate_final_report"
      => /\ current_session' = current_session
         /\ ~last'.raised <=> (HasSession /\ S.state = "completed")
         /\ last'.raised => last'.response.kind = "ValueError"
         /\ ~last'.raised => last'.response.kind = "report" ]_vars

\* a report asked while a category awaits confirmation
C20_Witness ==
  /\ HasSession
  /\ S.state = "confirming_standard"
  /\ last.op = "generate_final_report"
  /\ last.raised

\* C21: a report that generate_final_report returns has one entry for each
\* of the four categories, in the fixed order, and each entry carries the
\* full name of its category and the summary, suggestion and raw feedback of
\* the session's confirmed result for it.
C21_ReportEntries ==
  [][ last'.op = "generate_final_report" /\ ~last'.raised
      => LET entries == last'.response.report.standards_feedback
         IN /\ Len(entries) = Len(get_standard_order)
            /\ \A i \in DOMAIN entries :
                 LET result == S.feedback_collected[i]
                 IN /\ result.standard_name = get_standard_order[i]
                    /\ result.confirmed
                    /\ entries[i] = [standard |-> full_name(get_standard_order[i]),
                                     summary |-> result.summary[1],
                                     suggestion |-> result.suggestion[1],
                                     raw_feedback |-> result.raw_feedback] ]_vars

\* a report of a session in which a category took two submissions
C21_Witness ==
  /\ HasSession
  /\ last.op = "generate_final_report"
  /\ ~last.raised
  /\ \E i \in DOMAIN last.response.report.standards_feedback :
       Len(last.response.report.standards_feedback[i].raw_feedback) = 2

\* C22: a process_message call made without a session, or on a session in
\* COMPLETED or ERROR, raises an error instead of returning a reply and
\* changes nothing: no session appears, no turn is appended, no result and
\* no address is written.
C22_Rejected ==
  [][ last'.op = "process_message"
      /\ (~HasSession \/ S.state \in {"completed", "error"})
      => /\ last'.raised
         /\ current_session' = current_session ]_vars

\* C23: after a process_message call on a session, whether it returned or
\* raised, the history the session had before the call is a prefix of the
\* history it has now.
C23_AppendOnly ==
  [][ Processed
      => LET old == S.conversation_history
             new == current_session'[1].conversation_history
         IN /\ Len(new) >= Len(old)
            /\ SubSeq(new, 1, Len(old)) = old ]_vars

\* a call that raised after its preceptor turn was appended, following a
\* call that was answered
C23_Witness ==
  /\ HasSession
  /\ last.op = "process_message"
  /\ last.raised
  /\ LET h == S.conversation_history
     IN /\ Len(h) >= 5
        /\ h[Len(h)].speaker = "preceptor"
        /\ h[Len(h) - 1].speaker = "assistant"
        /\ h[Len(h) - 2].speaker = "preceptor"

\* C27: between calls, a session that is not in COMPLETED or ERROR has a
\* current category, and is not in INITIALIZED: so after start_session,
\* returned or failed, and after every process_message.
C27_OneCurrent ==
  HasSession /\ S.state \notin {"completed", "error"}
    => /\ S.state # "initialized"
       /\ S.current_standard # None

\* C28: every evaluation stored on a category has the tier its two signals
\* fold to (vague when neither holds, specific_no_example when only
\* is_specific holds, specific_with_example only when both hold), and a
\* session in CONFIRMING_STANDARD has is_specific and has_example true in the
\* evaluation of its current category.
C28_FoldedTier ==
  HasSession =>
    /\ \A i \in DOMAIN S.feedback_collected :
         LET e == S.feedback_collected[i].quality_evaluation[1]
         IN /\ (~e.is_specific /\ ~e.has_example => e.quality = "vague")
            /\ (e.is_specific /\ ~e.has_example => e.quality = "specific_no_example")
            /\ (e.quality = "specific_with_example" => e.is_specific /\ e.has_example)
    /\ (S.state = "confirming_standard"
          => /\ Current(S).quality_evaluation[1].is_specific
             /\ Current(S).quality_evaluation[1].has_example)

\* the SessionState that self.sessions holds for the id, if any
View(session_id) ==
  IF sessions[session_id] = 0 THEN None ELSE Some(objects[sessions[session_id]])

\* the step is the return of a ChatbotService.process_message call that got
\* past its section lookup
Answered ==
  /\ event'.op = "process_message"
  /\ event'.step = "return"
  /\ event'.analysis # None

\* C24: when a ChatbotService.process_message call returns its answer, the
\* history of its session ends with the call's user turn followed by the
\* call's assistant turn, also when another call on the session started
\* while this one was suspended.
C24_TurnsInCallOrder ==
  [][ Answered
      => LET h == objects'[event'.session].conversation_history
         IN /\ Len(h) >= 2
            /\ h[Len(h) - 1].role = "user"
            /\ h[Len(h) - 1].content = event'.message[1]
            /\ h[Len(h)].role = "assistant"
            /\ h[Len(h)].content = event'.response[1].response ]_vars

\* C25: a step of a process_message call, or a reset_session call, for one
\* session id leaves the SessionState of every other id as it was (its
\* current_section, completed_sections, section_responses and
\* conversation_history), and makes or removes no entry for another id.
C25_Independent ==
  [][ \A other \in SessionIds :
        event'.session_id # other => View(other)' = View(other) ]_vars

\* a call for A returns and completes a section while a call for B, whose
\* user turn is in B's history, is suspended
C25_Witness ==
  /\ event.op = "process_message"
  /\ event.step = "return"
  /\ event.session_id = "A"
  /\ View("A") # None
  /\ View("A")[1].completed_sections # {}
  /\ View("B") # None
  /\ View("B")[1].conversation_history # <<>>
  /\ \E t \in tasks : t.session_id = "B"

\* C26: no step of a ChatbotService.process_message call adds, changes or
\* deletes a document of the collection that retrieve_relevant_context
\* queries.
C26_IndexReadOnly ==
  [][ event'.op = "process_message" => collection' = collection ]_vars

\* C29: a submission whose stripped length is below the minimum is not
\* handed to the evaluation chain, leaves the ClinicalFeedbackAgent session
\* in COLLECTING_FEEDBACK on its category, and is answered with the probing
\* question.
C29_ShortIsVague ==
  [][ Processed /\ S.state = "collecting_feedback" /\ Verdict(last') = Safe
      /\ Len(strip(Corpus[last'.text[1]], Whitespace)) < min_response_length
      => /\ InvokedAt(last', "evaluation_chain") = 0
         /\ current_session'[1].state = "collecting_feedback"
         /\ current_session'[1].current_standard_index = S.current_standard_index
         /\ ~last'.raised => last'.response.kind = "probe_question" ]_vars

\* C30: a ChatbotService.process_message call whose analysis request raised,
\* or was answered with text that is not JSON, does not treat the message as
\* sufficient, whatever its length: the section is not completed and the
\* session's current section stays.
C30_NoSilentSufficient ==
  [][ Answered /\ event'.analysis[1].reason \in {"analysis_error", "fallback_analysis"}
      => /\ ~event'.analysis[1].is_sufficient
         /\ event'.response[1].next_action = "clarify"
         /\ objects'[event'.session].completed_sections
              = objects[event'.session].completed_sections
         /\ objects'[event'.session].current_section
              = objects[event'.session].current_section ]_vars

\* the confirmation request the session was last sent
ConfirmationQuestion(s) ==
  LET h == s.conversation_history
      asked == {i \in DOMAIN h : TurnKind(h[i]) = "confirmation_request"}
  IN h[CHOOSE i \in asked : \A j \in asked : j <= i].message

\* C31: an ambiguous reply in CONFIRMING_STANDARD is answered with the
\* confirmation request the session was sent when it entered the phase for
\* the category, summary and suggestion included, word for word.
C31_SameQuestion ==
  [][ Processed
      /\ S.state = "confirming_standard"
      /\ Verdict(last') = Safe
      /\ classify(last'.text[1]) = "ambiguous"
      => /\ last'.response.kind = "confirmation_request"
         /\ last'.response = ConfirmationQuestion(S) ]_vars

Punctuation == {".", ",", ";", ":", "!", "?"}

\* the term is in the text as a word, or as a run of words, of its own
OccursAsWord(text, term) ==
  LET raw == split_ws(lower(Corpus[text]), <<>>)
      words == [i \in DOMAIN raw |-> strip(raw[i], Punctuation)]
      sought == split_ws(term, <<>>)
  IN \E i \in 1..(Len(words) - Len(sought) + 1) :
       SubSeq(words, i, i + Len(sought) - 1) = sought

\* C33: a reply received in CONFIRMING_STANDARD, judged safe, in which no
\* keyword of either list is a word of the reply (keywords occur at most as
\* parts of other words) is treated as ambiguous: the category is not
\* confirmed and not sent back to collection, and the clarification is what
\* the call returns.
C33_NoCoercion ==
  [][ Processed
      /\ S.state = "confirming_standard"
      /\ Verdict(last') = Safe
      /\ (\A term \in revise_words \cup confirm_words :
            ~OccursAsWord(last'.text[1], term))
      => /\ Frame(current_session'[1]) = Frame(S)
         /\ last'.response.kind = "confirm_clarification" ]_vars

\* a keyword of the list is somewhere in the text
HasKeyword(text, terms) ==
  \E word \in terms : Contains(lower(Corpus[text]), word)

\* C38: a reply received in CONFIRMING_STANDARD, judged safe, that holds a
\* revise keyword is handled as a revision even when it also holds a confirm
\* keyword: no category becomes confirmed, the index stays and the state goes
\* back to COLLECTING_FEEDBACK; a category is confirmed only by a reply that
\* holds no revise keyword.
C38_ReviseWins ==
  [][ /\ (Processed /\ S.state = "confirming_standard" /\ Verdict(last') = Safe
            /\ HasKeyword(last'.text[1], revise_words)
            => /\ ConfirmedStandards(current_session'[1]) = ConfirmedStandards(S)
               /\ current_session'[1].current_standard_index = S.current_standard_index
               /\ current_session'[1].state = "collecting_feedback"
               /\ last'.response.kind = "revise_ack")
      /\ (SameSession /\ ConfirmedStandards(current_session'[1]) # ConfirmedStandards(S)
            => ~HasKeyword(last'.text[1], revise_words)) ]_vars

\* the reply "incorrect", which holds "incorrect" and "correct", sent the
\* second category back to collection
C38_Witness ==
  /\ HasSession
  /\ last.op = "process_message"
  /\ last.text = Some(TextOf(Incorrect))
  /\ HasKeyword(last.text[1], confirm_words)
  /\ last.response.kind = "revise_ack"
  /\ S.current_standard_index = 1
  /\ S.state = "collecting_feedback"

\* C34: in ChatbotService the completed sections of a session are always
\* the first k section ids for some k, a call completes no section but the
\* session's current one, and current_section never decreases, whatever
\* section_id the callers send.
C34_Sequential ==
  [][ \A o \in DOMAIN objects :
        LET old == objects[o]
            new == objects'[o]
        IN /\ new.completed_sections = 1..Cardinality(new.completed_sections)
           /\ new.completed_sections \ old.completed_sections
                \subseteq {old.current_section}
           /\ new.current_section >= old.current_section ]_vars

C39_CompletedFrozen ==
  [][ /\ (Processed /\ S.preceptor_email # None
            => current_session'[1].preceptor_email = S.preceptor_email)
      /\ (SameSession /\ S.state = "completed"
            => /\ current_session'[1].completed_at = S.completed_at
               /\ current_session'[1].feedback_collected = S.feedback_collected) ]_vars

\* the report of the completed session was returned
Reported ==
  /\ HasSession
  /\ Cardinality({i \in DOMAIN S.conversation_history :
                    TurnKind(S.conversation_history[i])
                      \in {"next_standard_intro", "email_request"}}) = 4
  /\ S.current_standard_index = 4
  /\ ConfirmedStandards(S) = {get_standard_order[i] : i \in 1..4}
  /\ S.preceptor_email # None
  /\ last.op = "generate_final_report"
  /\ ~last.raised
  /\ Len(last.response.report.standards_feedback) = 4

\* C35: a run in which no chain fails, no message is flagged and the
\* preceptor in the end sends, for each category, feedback rated specific
\* with example and then a confirming reply, reaches a completed session
\* (index 4, four categories confirmed) after exactly four confirmations,
\* with the address of a following message stored and a report of four
\* entries returned by generate_final_report.
C35_CooperativeRunCompletes == <>Reported

\* the run without any departure: welcome and introduction, four rounds of
\* feedback, confirmation request, reply and next request, then the address
C35_Witness ==
  /\ Reported
  /\ Len(S.conversation_history) = 20
  /\ S.preceptor_email = Some(<<"a","@","b",".","c">>)

\* C36: in the LangGraph variant every run that process_message starts goes
\* from START to END in a bounded number of node executions: whatever the
\* input and the phase, the value route_user_input returns after a node is a
\* key of that node's mapping, and no run keeps re-entering a node for its
\* unchanged input until the graph gives up (llm.invoke raising apart).
C36_RunsReachEnd ==
  [][ run.status = "running" /\ run'.status # "exception"
        => /\ run'.status \in {"running", "END"}
           /\ run'.status = "running" => run'.node \in edges[run.node] ]_vars

====
